---- MODULE Spec2Model ----
(***************************************************************************)
(* The request-dispatch core of the TikTok Business API Go SDK:            *)
(* Client.DoRequest (rate-limited, retrying HTTP executor) over the        *)
(* client's token-bucket limiter, with a discrete clock; ParseResponse and *)
(* the predicates of models.APIError; Config.Validate, NewClient and the   *)
(* client's setters.                                                       *)
(*                                                                         *)
(* Time is counted in ticks, TicksPerSecond ticks to the second.  The      *)
(* limiter's tokens are counted in units of 1/TicksPerSecond token, so     *)
(* that a limiter of rate r gains r units per tick and one admission       *)
(* costs TicksPerSecond units.                                             *)
(***************************************************************************)
EXTENDS Integers, Sequences, FiniteSets, TLC

\* ------------------------------------------------------------------ bounds

NumCallers == 2
MaxCalls == 2
MaxTime == 2
MaxRetriesBound == 2
MaxRate == 2
MaxBurst == 1
TicksPerSecond == 2

\* ------------------------------------------------------- program constants

DefaultMaxRetries == 3
DefaultRetryableCodes == {429, 500, 502, 503, 504}

LinearBackoff == 0
ExponentialBackoff == 1
FixedBackoff == 2

\* ----------------------------------------------------------------- domains

Callers == 1..NumCallers
Times == 0..MaxTime

\* HTTP statuses the transport may answer with.
Statuses == {200, 400, 503}

\* RetryConfig.RetryableStatusCodes as configured ({} is "none configured").
CodeChoices == {{}, {503}, {400}}

\* What one call of httpClient.Do gives back: a response (err = "nil") with
\* a status, a transport-level error, or the context's error.
Outcomes ==
    [err : {"nil"}, status : Statuses]
        \cup {[err |-> "transport", status |-> 0], [err |-> "ctx", status |-> 0]}

NoRetryConfig ==
    [set |-> FALSE, MaxRetries |-> 0, BackoffStrategy |-> LinearBackoff,
     InitialDelay |-> 0, MaxDelay |-> 0, Multiplier |-> 0,
     RetryableStatusCodes |-> {}]

NoRateLimit == [set |-> FALSE, RequestsPerSecond |-> 0, BurstSize |-> 0]

VARIABLES
    cfg,        \* Client.config: the RetryConfig and RateLimit it holds
    limiter,    \* Client.rateLimiter: the token bucket (set = FALSE: nil)
    now,        \* the clock, in ticks
    callers,    \* the goroutines that call DoRequest on the client
    call,       \* per caller: the state of its logical call
    arrived,    \* per instant: reservations made by Wait at that instant
    admitted,   \* per instant: callers the limiter let through at it
    granted,    \* per instant: admissions the limiter has promised for it
    parsed,     \* per caller: what ParseResponse made of the response
    classified, \* an APIError and what its predicates say of it
    made,       \* a call of NewClient: its argument and what it returned
    req,        \* per caller: the *http.Request DoRequest built and reuses
    svc,        \* per caller: a call of a method of one of the services
    iter,       \* a PaginationIterator
    batch       \* a BatchProcessor and the call of Process on it

vars ==
    <<cfg, limiter, now, callers, call, arrived, admitted, granted, parsed,
      classified, made, req, svc, iter, batch>>

\* The state of the client, its calls and its requests.
clientVars ==
    <<cfg, limiter, now, callers, call, arrived, admitted, granted, parsed,
      classified, made, req>>

\* The state beside them: service calls and the helpers of package utils.
aside == <<svc, iter, batch>>

\* The state DoRequest does not touch.
outside == <<parsed, classified, made>>

\* --------------------------------------------------------------- the code

\* The error values DoRequest records in lastErr.
NoErr == [kind |-> "nil", status |-> 0]
StatusErr(status) == [kind |-> "status", status |-> status]
DoErr(o) == [kind |-> o.err, status |-> 0]

NoResult == [kind |-> "none", status |-> 0, attempts |-> 0, cause |-> NoErr]

IdleCall ==
    [pc |-> "idle", cancelled |-> FALSE, cancelledIn |-> 0, attempt |-> 0,
     sends |-> 0,
     acquired |-> 0, lastErr |-> NoErr, result |-> NoResult,
     trace |-> <<>>, closes |-> <<>>, timeToAct |-> 0, failedAt |-> 0,
     gap |-> 0, n |-> 0]

\* rate.NewLimiter(limit, burst): a full bucket.
NewLimiter(limit, burst) ==
    [set |-> TRUE, limit |-> limit, burst |-> burst,
     tokens |-> burst * TicksPerSecond, last |-> 0, lastEvent |-> 0]

NilLimiter ==
    [set |-> FALSE, limit |-> 0, burst |-> 0, tokens |-> 0, last |-> 0,
     lastEvent |-> 0]

\* NewClient: the limiter built from the configuration's RateLimit.
NewClientLimiterSwapped(config) ==
    IF config.RateLimit.set
    THEN NewLimiter(config.RateLimit.BurstSize, config.RateLimit.RequestsPerSecond)
    ELSE NilLimiter

NewClientLimiter(config) ==
    IF config.RateLimit.set
    THEN NewLimiter(config.RateLimit.RequestsPerSecond, config.RateLimit.BurstSize)
    ELSE NilLimiter

\* Limit.durationFromTokens, to the tick at or after the exact instant.
DurationFromTokens(limit, tokens) == (tokens + limit - 1) \div limit

\* Limit.tokensFromDuration.
TokensFromDuration(limit, d) == limit * d

Min(a, b) == IF a < b THEN a ELSE b

\* Limiter.advance: the tokens banked at instant t.
Advance(lim, t) ==
    LET last == Min(lim.last, t)
    IN  Min(lim.burst * TicksPerSecond,
            lim.tokens + TokensFromDuration(lim.limit, t - last))

\* Limiter.reserveN for one token with no deadline: the wait it imposes.
ReserveWait(lim, t) ==
    LET tokens == Advance(lim, t) - TicksPerSecond
    IN  IF tokens < 0 THEN DurationFromTokens(lim.limit, -tokens) ELSE 0

\* Limiter.reserveN for one token with no deadline: the limiter afterwards.
Reserve(lim, t) ==
    [lim EXCEPT !.tokens = Advance(lim, t) - TicksPerSecond,
                !.last = t,
                !.lastEvent = t + ReserveWait(lim, t)]

\* Reservation.CancelAt(t) of a one-token reservation due at timeToAct.
CancelReservation(lim, timeToAct, t) ==
    LET restoreTokens ==
            TicksPerSecond
                - TokensFromDuration(lim.limit, lim.lastEvent - timeToAct)
        prevEvent == timeToAct - DurationFromTokens(lim.limit, TicksPerSecond)
    IN  IF timeToAct < t \/ restoreTokens <= 0
        THEN lim
        ELSE [lim EXCEPT
                !.tokens = Min(lim.burst * TicksPerSecond,
                               Advance(lim, t) + restoreTokens),
                !.last = t,
                !.lastEvent = IF timeToAct = lim.lastEvent /\ prevEvent >= t
                              THEN prevEvent ELSE lim.lastEvent]

\* DoRequest: maxRetries := 3, or RetryConfig.MaxRetries when configured.
maxRetries ==
    IF cfg.RetryConfig.set THEN cfg.RetryConfig.MaxRetries ELSE DefaultMaxRetries

\* Client.shouldRetry.
shouldRetryDefaultOnly(statusCode) == statusCode \in DefaultRetryableCodes

shouldRetryAnyFailure(statusCode) == statusCode >= 400

shouldRetry(statusCode) ==
    LET retryableCodes ==
            IF cfg.RetryConfig.set /\ cfg.RetryConfig.RetryableStatusCodes # {}
            THEN cfg.RetryConfig.RetryableStatusCodes
            ELSE DefaultRetryableCodes
    IN  statusCode \in retryableCodes

\* DoRequest: the loop's condition, attempt <= maxRetries.
LoopContinuesOneMore(attempt) == attempt <= maxRetries + 1

LoopContinuesStrict(attempt) == attempt < maxRetries

LoopContinues(attempt) == attempt <= maxRetries

\* DoRequest: the test that discards a response and retries.
RetryStatusNoGuard(statusCode, attempt) == shouldRetry(statusCode)

RetryStatus(statusCode, attempt) ==
    shouldRetry(statusCode) /\ attempt < maxRetries

\* DoRequest: resp.Body.Close() on the response received last.
CloseBody(st) ==
    [st EXCEPT !.closes = [st.closes EXCEPT ![Len(st.closes)] = @ + 1]]

\* DoRequest: the error returned when the loop runs out.
Exhausted(lastErr) ==
    [kind |-> "exhausted", status |-> 0, attempts |-> maxRetries + 1,
     cause |-> lastErr]

\* DoRequest: the loop's head with `attempt` and `lastErr` as they stand:
\* another physical send, or the loop's end and the exhaustion error.
LoopHead(st, attempt, lastErr) ==
    IF LoopContinues(attempt)
    THEN [st EXCEPT !.pc = "send", !.attempt = attempt, !.lastErr = lastErr,
                    !.failedAt = IF attempt = 0 THEN 0 ELSE now]
    ELSE [st EXCEPT !.pc = "done", !.attempt = attempt, !.lastErr = lastErr,
                    !.failedAt = 0, !.result = Exhausted(lastErr)]

\* DoRequest from the limiter's admission on: the request is built (a method
\* or URL http.NewRequestWithContext rejects ends the call) and the loop is
\* entered.
BuildAndEnter(st, validReq) ==
    IF validReq
    THEN LoopHead(st, 0, NoErr)
    ELSE [st EXCEPT !.pc = "done",
                    !.result = [NoResult EXCEPT !.kind = "createErr"]]

\* DoRequest: Wait returned an error; "rate limit error: %w" is returned.
RateLimitAbortIgnored(st) == BuildAndEnter(st, TRUE)

RateLimitAbort(st) ==
    [st EXCEPT !.pc = "done",
               !.result = [NoResult EXCEPT !.kind = "rateLimitErr",
                                           !.cause = [kind |-> "ctx", status |-> 0]]]

Bump(f, t) == [f EXCEPT ![t] = @ + 1]

\* The log of promised admissions: d more (or fewer) at instant t, when t is
\* an instant the clock can reach.
Grant(f, t, d) == IF t \in DOMAIN f THEN [f EXCEPT ![t] = @ + d] ELSE f

\* ------------------------------------------- ParseResponse and models.APIError

\* The error codes a response body may name ("": none, or an empty one).
BodyCodes == {"", "RATE_LIMIT_EXCEEDED", "INVALID_PARAMETER", "UNAUTHORIZED"}

\* A response body: whether io.ReadAll gets to its end, whether the text is
\* well-formed JSON, whether that JSON fits models.APIError (an object whose
\* code, message and request_id are strings or absent) and with which code,
\* and whether it fits the type of the caller's target.
Bodies ==
    [readOK : BOOLEAN, wellFormed : BOOLEAN, fitsAPIError : BOOLEAN,
     code : BodyCodes, fitsTarget : BOOLEAN]

NoBody ==
    [readOK |-> FALSE, wellFormed |-> FALSE, fitsAPIError |-> FALSE,
     code |-> "", fitsTarget |-> FALSE]

\* models.APIError, by the fields its predicates read.
NoAPIError == [Code |-> "", HTTPStatusCode |-> 0]

\* json.Unmarshal(body, &apiErr): err == nil.
UnmarshalAPIErrorOK(body) == body.wellFormed /\ body.fitsAPIError

\* json.Unmarshal(body, &apiErr): the value decoded.  HTTPStatusCode is
\* tagged `json:"-"`: no body sets it.
UnmarshalAPIError(body) == [Code |-> body.code, HTTPStatusCode |-> 0]

\* json.Unmarshal(body, v): err == nil.
UnmarshalTargetOK(body) == body.wellFormed /\ body.fitsTarget

\* The errors ParseResponse returns.
NilError == [kind |-> "nil", status |-> 0, text |-> NoBody, apiErr |-> NoAPIError]
ReadError == [NilError EXCEPT !.kind = "read"]
APIErrorOf(e) == [NilError EXCEPT !.kind = "api", !.apiErr = e]
HTTPError(status, body) ==
    [NilError EXCEPT !.kind = "http", !.status = status, !.text = body]
ParseError == [NilError EXCEPT !.kind = "parse"]

NotParsed ==
    [done |-> FALSE, status |-> 0, body |-> NoBody, err |-> NilError,
     target |-> "untouched", closes |-> 0]

\* ParseResponse: resp.StatusCode >= 400.
IsErrorStatusAbove(status) == status > 400

IsErrorStatus(status) == status >= 400

\* ParseResponse: defer resp.Body.Close().
DeferredCloseOnSuccess(r) ==
    IF r.err.kind = "nil" THEN [r EXCEPT !.closes = @ + 1] ELSE r

DeferredClose(r) == [r EXCEPT !.closes = @ + 1]

\* ParseResponse, from io.ReadAll to its return: the error returned and what
\* became of the target v (json.Unmarshal checks the whole text before it
\* stores anything, and may have stored some fields when a type disagrees).
ParseBody(resp) ==
    LET r == [NotParsed EXCEPT !.done = TRUE, !.status = resp.status,
                               !.body = resp.body]
    IN  IF ~resp.body.readOK
        THEN [r EXCEPT !.err = ReadError]
        ELSE IF IsErrorStatus(resp.status)
        THEN IF UnmarshalAPIErrorOK(resp.body)
                    /\ UnmarshalAPIError(resp.body).Code # ""
             THEN [r EXCEPT !.err = APIErrorOf(UnmarshalAPIError(resp.body))]
             ELSE [r EXCEPT !.err = HTTPError(resp.status, resp.body)]
        ELSE IF UnmarshalTargetOK(resp.body)
        THEN [r EXCEPT !.target = "decoded"]
        ELSE [r EXCEPT !.err = ParseError,
                       !.target = IF resp.body.wellFormed
                                  THEN "partial" ELSE "untouched"]

ParseResponse(resp) == DeferredClose(ParseBody(resp))

\* APIError.IsRetryable.
IsRetryable(e) ==
    \/ e.HTTPStatusCode \in {429, 500, 502, 503, 504}
    \/ e.Code \in {"RATE_LIMIT_EXCEEDED", "INTERNAL_ERROR",
                   "SERVICE_UNAVAILABLE", "TIMEOUT"}

\* APIError.IsAuthenticationError.
IsAuthenticationError(e) ==
    \/ e.HTTPStatusCode \in {401, 403}
    \/ e.Code \in {"UNAUTHORIZED", "FORBIDDEN", "INVALID_ACCESS_TOKEN",
                   "ACCESS_TOKEN_EXPIRED", "INSUFFICIENT_PERMISSIONS"}

\* APIError.IsValidationError.
IsValidationError(e) ==
    \/ e.HTTPStatusCode = 400
    \/ e.Code \in {"INVALID_PARAMETER", "MISSING_PARAMETER",
                   "PARAMETER_VALUE_NOT_SUPPORTED", "VALIDATION_ERROR"}

\* APIError.IsRateLimitError.
IsRateLimitError(e) ==
    e.HTTPStatusCode = 429 \/ e.Code = "RATE_LIMIT_EXCEEDED"

NotClassified ==
    [done |-> FALSE, apiErr |-> NoAPIError, retryable |-> FALSE,
     authentication |-> FALSE, validation |-> FALSE, rateLimit |-> FALSE,
     resent |-> FALSE]

\* ------------------------------------------------- Config and NewClient

\* time.Duration is a signed integer, here of DurationBits bits, that counts
\* ticks; time.Second is TicksPerSecond of them.
DurationBits == 8
Second == TicksPerSecond

\* A product of durations as the machine keeps it, wrapped to the width.
WrapDuration(n) ==
    LET m == 2 ^ DurationBits
        r == n % m
    IN  IF r >= m \div 2 THEN r - m ELSE r

\* A nil *Config.
NilConfig ==
    [set |-> FALSE, BaseURL |-> "", AccessToken |-> "", ClientID |-> "",
     ClientSecret |-> "", Timeout |-> 0, RetryConfig |-> NoRetryConfig,
     RateLimit |-> NoRateLimit, UserAgent |-> ""]

\* DefaultConfig(): no credential.
DefaultConfig ==
    [set |-> TRUE, BaseURL |-> "https://business-api.tiktok.com",
     AccessToken |-> "", ClientID |-> "", ClientSecret |-> "",
     Timeout |-> 30 * Second,
     RetryConfig |->
        [set |-> TRUE, MaxRetries |-> 3, BackoffStrategy |-> ExponentialBackoff,
         InitialDelay |-> 1 * Second, MaxDelay |-> 30 * Second,
         Multiplier |-> 2, RetryableStatusCodes |-> {429, 500, 502, 503, 504}],
     RateLimit |-> [set |-> TRUE, RequestsPerSecond |-> 10, BurstSize |-> 20],
     UserAgent |-> "tiktok-business-api-go-sdk/1.0.0"]

\* Config.Validate: the credential test.
CredentialMissingAll(c) ==
    c.AccessToken = "" /\ c.ClientID = "" /\ c.ClientSecret = ""

CredentialMissing(c) ==
    c.AccessToken = "" /\ (c.ClientID = "" \/ c.ClientSecret = "")

\* Config.Validate: the RetryConfig tests; the field at fault, "" for none.
ValidateRetryConfigLenient(rc) ==
    IF ~rc.set THEN ""
    ELSE IF rc.MaxRetries < 0 THEN "RetryConfig.MaxRetries"
    ELSE IF rc.InitialDelay <= 0 THEN "RetryConfig.InitialDelay"
    ELSE IF rc.MaxDelay < 0 THEN "RetryConfig.MaxDelay"
    ELSE IF rc.Multiplier <= 0 THEN "RetryConfig.Multiplier"
    ELSE ""

ValidateRetryConfig(rc) ==
    IF ~rc.set THEN ""
    ELSE IF rc.MaxRetries < 0 THEN "RetryConfig.MaxRetries"
    ELSE IF rc.InitialDelay <= 0 THEN "RetryConfig.InitialDelay"
    ELSE IF rc.MaxDelay <= 0 THEN "RetryConfig.MaxDelay"
    ELSE IF rc.Multiplier <= 0 THEN "RetryConfig.Multiplier"
    ELSE ""

\* Config.Validate: the RateLimit tests.
ValidateRateLimit(rl) ==
    IF ~rl.set THEN ""
    ELSE IF rl.RequestsPerSecond <= 0 THEN "RateLimit.RequestsPerSecond"
    ELSE IF rl.BurstSize <= 0 THEN "RateLimit.BurstSize"
    ELSE ""

\* Config.Validate: the Field of the ErrInvalidConfig returned, "" for nil.
Validate(c) ==
    IF c.BaseURL = "" THEN "BaseURL"
    ELSE IF CredentialMissing(c) THEN "Authentication"
    ELSE IF c.Timeout <= 0 THEN "Timeout"
    ELSE IF ValidateRetryConfig(c.RetryConfig) # ""
    THEN ValidateRetryConfig(c.RetryConfig)
    ELSE ValidateRateLimit(c.RateLimit)

\* url.Parse(config.BaseURL): err != nil (as for a bad percent-escape).
URLParseFails(baseURL) == baseURL = "%zz"

\* The scheme and host of a *url.URL (set = FALSE: it has neither).
NoOrigin == [set |-> FALSE, scheme |-> "", host |-> ""]

\* url.Parse(config.BaseURL): the URL parsed.
ParseURL(baseURL) ==
    IF baseURL = "https://business-api.tiktok.com"
    THEN [set |-> TRUE, scheme |-> "https", host |-> "business-api.tiktok.com"]
    ELSE NoOrigin

\* A nil *Client.
\* The services of a Client that its accessors of interface type return.
Services ==
    {"Account", "Campaign", "Ad", "AdGroup", "Audience", "Creative",
     "Reporting", "Tool", "BC", "Auth"}

NilServices == [s \in Services |-> "nil"]

\* Client.initServices: the implementation behind each accessor.
initServices ==
    [Account |-> "accountService", Campaign |-> "campaignService",
     Tool |-> "toolService", Auth |-> "authService",
     Creative |-> "creativeService",
     Ad |-> "notImplementedAdService",
     AdGroup |-> "notImplementedAdGroupService",
     Audience |-> "notImplementedAudienceService",
     Reporting |-> "notImplementedReportingService",
     BC |-> "notImplementedBCService"]

NilClient ==
    [set |-> FALSE, config |-> NilConfig, httpTimeout |-> 0,
     rateLimiter |-> NilLimiter, baseURL |-> NoOrigin,
     services |-> NilServices]

NotMade ==
    [called |-> FALSE, input |-> NilConfig, err |-> "", field |-> "",
     client |-> NilClient]

\* NewClient(input): the client and the error it returns.
NewClient(input) ==
    LET config == IF input.set THEN input ELSE DefaultConfig
        r == [NotMade EXCEPT !.called = TRUE, !.input = input]
    IN  IF Validate(config) # ""
        THEN [r EXCEPT !.err = "invalid config", !.field = Validate(config)]
        ELSE IF URLParseFails(config.BaseURL)
        THEN [r EXCEPT !.err = "invalid base URL"]
        ELSE [r EXCEPT !.client =
                [set |-> TRUE, config |-> config,
                 httpTimeout |-> WrapDuration(config.Timeout * Second),
                 rateLimiter |-> NewClientLimiter(config),
                 baseURL |-> ParseURL(config.BaseURL),
                 services |-> initServices]]

\* The values a caller may put into a Config.
BaseURLs == {"", "%zz", "https://business-api.tiktok.com"}
AccessTokens == {"", "token"}
ClientIDs == {"", "id"}
ClientSecrets == {"", "secret"}
Timeouts == {-1, 0, 1, Second, 30 * Second}

RetryConfigInputs ==
    {NoRetryConfig} \cup
    [set : {TRUE}, MaxRetries : {-1, 0, 3},
     BackoffStrategy : {ExponentialBackoff},
     InitialDelay : {-1, 0, Second, 2 * Second},
     MaxDelay : {-1, 0, Second, 2 * Second},
     Multiplier : {-1, 0, 2}, RetryableStatusCodes : {{}}]

RateLimitInputs ==
    {NoRateLimit} \cup
    [set : {TRUE}, RequestsPerSecond : {-1, 0, 10}, BurstSize : {-1, 0, 20}]

Configs ==
    {NilConfig} \cup
    [set : {TRUE}, BaseURL : BaseURLs, AccessToken : AccessTokens,
     ClientID : ClientIDs, ClientSecret : ClientSecrets, Timeout : Timeouts,
     RetryConfig : RetryConfigInputs, RateLimit : RateLimitInputs,
     UserAgent : {"tiktok-business-api-go-sdk/1.0.0"}]

\* ------------------------------------------- DoRequest: the request it builds

BodyLen == 2

\* A string that holds a path or a URL, by its parts: the scheme and host it
\* starts with (if any), the segments of its path, and the keys of the
\* query that follows a "?".
ParamKeys == {"advertiser_ids", "page"}
Endpoints == {<<"open_api", "advertiser", "info">>, <<"open_api", "campaign">>}

PathText(endpoint) == [origin |-> NoOrigin, segs |-> endpoint, query |-> {}]

\* Client.BuildURL(endpoint, params): u.String() of the base URL resolved
\* with the endpoint as path and the params as query.
BuildURL(client, endpoint, params) ==
    [origin |-> client.baseURL, segs |-> endpoint, query |-> params]

\* What a caller passes as DoRequest's endpoint: a path, or BuildURL's result.
EndpointArgs(client) ==
    {PathText(e) : e \in Endpoints}
        \cup {BuildURL(client, e, ps) : e \in Endpoints, ps \in SUBSET ParamKeys}

NoURL == [scheme |-> "", host |-> "", path |-> <<>>, escaped |-> {}, query |-> {}]

\* c.baseURL.ResolveReference(&url.URL{Path: endpoint}): the whole string is
\* the path of the reference, so a scheme ("https:" with the empty segment
\* of "//" after it) and host in it become path segments, and a query in it
\* stays in the path with its "?" escaped; the URL has no query.
ResolvePath(client, text) ==
    [NoURL EXCEPT !.scheme = client.baseURL.scheme,
                  !.host = client.baseURL.host,
                  !.path = IF text.origin.set
                           THEN <<text.origin.scheme, "", text.origin.host>>
                                    \o text.segs
                           ELSE text.segs,
                  !.escaped = text.query]

\* A header of a request, or of the map a caller passes.
NoHeader == [set |-> FALSE, value |-> ""]
Header(value) == [set |-> TRUE, value |-> value]

NoHeaders ==
    [UserAgent |-> NoHeader, AccessToken |-> NoHeader, ContentType |-> NoHeader]

\* The headers maps callers pass: nil, or an Access-Token (as
\* authService.ValidateToken does), or a User-Agent of their own.
HeaderArgs ==
    {NoHeaders,
     [NoHeaders EXCEPT !.AccessToken = Header("other-token")],
     [NoHeaders EXCEPT !.UserAgent = Header("other-agent")]}

\* The body readers callers pass: nil, or a reader over BodyLen bytes.
BodyArgs == {0, BodyLen}

NoRequest ==
    [pc |-> "idle", endpoint |-> PathText(<<>>), headersArg |-> NoHeaders,
     body |-> 0, tokenSeen |-> FALSE, url |-> NoURL, headers |-> NoHeaders,
     bodyLeft |-> 0, sent |-> <<>>, raced |-> FALSE]

\* DoRequest: req.Header.Set(key, value) for each header the caller passed.
SetCustomHeaders(headers, arg) ==
    [h \in DOMAIN headers |-> IF arg[h].set THEN arg[h] ELSE headers[h]]

\* DoRequest: if c.config.AccessToken != "" { Set("Access-Token", ...) }.
SetAccessTokenHeaderWhenEmpty(headers, tokenSeen, token) ==
    IF ~tokenSeen THEN [headers EXCEPT !.AccessToken = Header(token)]
    ELSE headers

SetAccessTokenHeader(headers, tokenSeen, token) ==
    IF tokenSeen THEN [headers EXCEPT !.AccessToken = Header(token)]
    ELSE headers

\* What a read of c.config.AccessToken gives: the field's value, or, when
\* another goroutine wrote the field since this call last read it, whatever
\* the unsynchronised read makes of it.
ReadAccessToken(r) ==
    IF r.raced THEN AccessTokens \cup {"torn"}
    ELSE {made.client.config.AccessToken}

\* httpClient.Do(req) begins: what this physical send carries.
Transmit(r) ==
    IF r.pc = "built"
    THEN [r EXCEPT !.sent = Append(@,
            [headers |-> r.headers, url |-> r.url, body |-> r.bodyLeft,
             timeout |-> made.client.httpTimeout,
             configured |-> made.client.config.Timeout])]
    ELSE r

\* The send in progress was given less than the whole body.
BodyShort(r) ==
    r.pc = "built" /\ r.sent # <<>> /\ r.sent[Len(r.sent)].body < r.body

\* ------------------------------------------------------------ the services

\* A call of a service method that has not been made.
NoServiceCall ==
    [pc |-> "idle", service |-> "", method |-> "", impl |-> "",
     client |-> FALSE, config |-> FALSE, err |-> "", panicked |-> FALSE]

\* The implementations whose every method returns ErrServiceNotImplemented.
NotImplemented ==
    {"notImplementedAdService", "notImplementedAdGroupService",
     "notImplementedAudienceService", "notImplementedCreativeService",
     "notImplementedReportingService", "notImplementedBCService"}

\* A method of a service as called on its first lines: a method of a
\* notImplemented service returns the error at once; creativeService.
\* UploadImage returns an error for a request without advertiser id and
\* goes on to DoRequest otherwise.
EnterService(st, service, impl, reqOK) ==
    LET c == [st EXCEPT !.service = service, !.impl = impl, !.client = TRUE,
                        !.method = IF impl = "creativeService"
                                   THEN "UploadImage" ELSE "any"]
    IN  IF impl \in NotImplemented
        THEN [c EXCEPT !.pc = "done", !.err = "ErrServiceNotImplemented"]
        ELSE IF ~reqOK
        THEN [c EXCEPT !.pc = "done", !.err = "advertiser_id is required"]
        ELSE [c EXCEPT !.pc = "calling"]

\* A service method after DoRequest: its error is wrapped and returned, a
\* response goes through ParseResponse.
LeaveService(st, result, parse) ==
    IF result.kind # "resp"
    THEN [st EXCEPT !.pc = "done", !.err = "request failed"]
    ELSE [st EXCEPT !.pc = "done",
                    !.err = IF parse.err = NilError THEN "nil"
                            ELSE "response error"]

\* The methods of AuthService.
AuthMethods ==
    {"GetAuthorizationURL", "GetAccessToken", "RefreshToken", "ValidateToken",
     "RevokeToken"}

\* The authService values there are, by the collaborators they hold:
\* NewAuthService(config) returns &authService{config: config}, and
\* initServices sets c.auth = &authService{client: c}.
AuthServices ==
    [NewAuthService |-> [client |-> FALSE, config |-> TRUE],
     ClientAuth |-> [client |-> TRUE, config |-> FALSE]]

\* The methods that read a.config on their first lines (ValidateToken does
\* not), and those that call a.client.DoRequest after that.
ReadsAuthConfig(method) == method # "ValidateToken"
CallsClient(method) == method # "GetAuthorizationURL"

\* A method of an authService as called: reading a field of a nil
\* *AuthConfig panics, and so does DoRequest on a nil *Client, at its first
\* field access; GetAuthorizationURL returns once it has read the config.
EnterAuth(st, auth, method) ==
    LET c == [st EXCEPT !.service = "Auth", !.impl = "authService",
                        !.method = method, !.client = auth.client,
                        !.config = auth.config]
    IN  IF ReadsAuthConfig(method) /\ ~auth.config
        THEN [c EXCEPT !.pc = "done", !.panicked = TRUE]
        ELSE IF ~CallsClient(method)
        THEN [c EXCEPT !.pc = "done", !.err = "nil"]
        ELSE IF ~auth.client
        THEN [c EXCEPT !.pc = "done", !.panicked = TRUE]
        ELSE [c EXCEPT !.pc = "calling"]

\* ------------------------------------------------------------ package utils

\* A nil *PaginationOptions.
NilOptions == [set |-> FALSE, PageSize |-> 0, MaxPages |-> 0]

\* A nil *PaginatedResult: no page.
NoPage == [set |-> FALSE, page |-> 0, items |-> 0, HasMore |-> FALSE]

\* What a call of Next did and returned, before any call.
NoNext ==
    [called |-> FALSE, fetched |-> FALSE, err |-> "",
     before |-> [currentPage |-> 0, hasMore |-> FALSE, lastResult |-> NoPage]]

\* No iterator.  Beside the fields of PaginationIterator: the calls of
\* fetchFunc made so far, the loop of AllPages or ForEach in progress with
\* its allResults, what the loop last returned and what Next last did.
NoIterator ==
    [set |-> FALSE, options |-> NilOptions, currentPage |-> 0,
     hasMore |-> FALSE, lastResult |-> NoPage, fetched |-> <<>>,
     pc |-> "idle", allResults |-> 0, returned |-> "", last |-> NoNext]

MaxPagesBound == 2
MaxFetches == 3
MaxPageItems == 1
TooManyResults == 100000

\* DefaultPaginationOptions().
DefaultPaginationOptions == [set |-> TRUE, PageSize |-> 50, MaxPages |-> 0]

\* NewPaginationIterator(fetchFunc, options).
NewPaginationIterator(options) ==
    [NoIterator EXCEPT
        !.set = TRUE,
        !.options = IF options.set THEN options ELSE DefaultPaginationOptions,
        !.currentPage = 1, !.hasMore = TRUE]

\* What fetchFunc returns: an error, or a page of some items with its
\* PageInfo.HasMore.
FetchOutcomes ==
    {[err |-> TRUE, items |-> 0, HasMore |-> FALSE]}
        \cup [err : {FALSE}, items : 0..MaxPageItems, HasMore : BOOLEAN]

\* Next: the test of the page limit.
PastMaxPagesLate(it) ==
    it.options.MaxPages > 0 /\ it.currentPage > it.options.MaxPages + 1

PastMaxPages(it) ==
    it.options.MaxPages > 0 /\ it.currentPage > it.options.MaxPages

\* Next calls fetchFunc.
Fetches(it) == it.hasMore /\ ~PastMaxPages(it)

\* PaginationIterator.Next, o being what fetchFunc returns if it is called.
IteratorNext(it, o) ==
    LET before == [currentPage |-> it.currentPage, hasMore |-> it.hasMore,
                   lastResult |-> it.lastResult]
        ret(fetched, err) ==
            [called |-> TRUE, fetched |-> fetched, err |-> err,
             before |-> before]
        asked == Append(it.fetched,
                        [page |-> it.currentPage,
                         pageSize |-> it.options.PageSize, ok |-> ~o.err])
    IN  IF ~it.hasMore
        THEN [it EXCEPT !.last = ret(FALSE, "no more pages available")]
        ELSE IF PastMaxPages(it)
        THEN [it EXCEPT !.hasMore = FALSE,
                        !.last = ret(FALSE, "maximum pages limit reached")]
        ELSE IF o.err
        THEN [it EXCEPT !.fetched = asked,
                        !.last = ret(TRUE, "failed to fetch page")]
        ELSE [it EXCEPT !.fetched = asked,
                        !.lastResult = [set |-> TRUE, page |-> it.currentPage,
                                        items |-> o.items,
                                        HasMore |-> o.HasMore],
                        !.currentPage = @ + 1,
                        !.hasMore = o.HasMore,
                        !.last = ret(TRUE, "nil")]

\* PaginationIterator.HasNext.
HasNext(it) == it.hasMore

\* One turn of the loop of AllPages (fn never fails) and of ForEach (fnErr:
\* fn returns an error for an item of the page): the loop ends when HasNext
\* is false, when Next returns an error, when fn does, and in AllPages when
\* more than 100,000 results are collected.
LoopTurn(it, o, fnErr) ==
    IF ~HasNext(it)
    THEN [it EXCEPT !.pc = "idle", !.returned = "nil"]
    ELSE LET n == IteratorNext(it, o)
         IN  IF n.last.err # "nil"
             THEN [n EXCEPT !.pc = "idle", !.returned = n.last.err]
             ELSE IF it.pc = "ForEach"
             THEN IF fnErr /\ o.items > 0
                  THEN [n EXCEPT !.pc = "idle", !.returned = "fn error"]
                  ELSE n
             ELSE IF n.allResults + o.items > TooManyResults
             THEN [n EXCEPT !.allResults = @ + o.items, !.pc = "idle",
                            !.returned = "too many results"]
             ELSE [n EXCEPT !.allResults = @ + o.items]

\* No batch processor.  Beside the fields of BatchProcessor: the length of
\* the items Process was given, its index i, where it stands, and the
\* batches (from, to) it has called the processor on.
NoBatch ==
    [set |-> FALSE, batchSize |-> 0, items |-> 0, i |-> 0, pc |-> "idle",
     batches |-> <<>>, err |-> FALSE]

MaxItems == 4
MaxBatchSize == 3

\* NewBatchProcessor(batchSize, processor).
NewBatchProcessor(batchSize) ==
    [NoBatch EXCEPT !.set = TRUE, !.batchSize = batchSize]

\* One turn of the loop of Process; perr: the processor returns an error.
\* items[i:end] with end < i is a slice out of range: a run-time panic.
ProcessTurn(b, perr) ==
    IF ~(b.i < b.items)
    THEN [b EXCEPT !.pc = "returned"]
    ELSE LET end == IF b.i + b.batchSize > b.items THEN b.items
                    ELSE b.i + b.batchSize
         IN  IF end < b.i
             THEN [b EXCEPT !.pc = "panicked"]
             ELSE IF perr
             THEN [b EXCEPT !.batches = Append(@, <<b.i, end>>),
                            !.pc = "returned", !.err = TRUE]
             ELSE [b EXCEPT !.batches = Append(@, <<b.i, end>>),
                            !.i = @ + b.batchSize]

\* ----------------------------------------------------------------- actions

\* A caller enters DoRequest with a method and endpoint (validReq: whether
\* http.NewRequestWithContext accepts them) and a context (deadlineNear:
\* whether its deadline falls before the instant the limiter could admit
\* the call) and runs to the first point it can block at: inside
\* rateLimiter.Wait, or before the first send.  Wait makes no reservation
\* for a context that is done or whose deadline the wait would pass.
Arrive(p) ==
    /\ call[p].pc = "idle"
    /\ \E validReq \in BOOLEAN, deadlineNear \in BOOLEAN :
        LET st == [call[p] EXCEPT !.n = @ + 1]
        IN  IF ~limiter.set
            THEN /\ call' = [call EXCEPT ![p] = BuildAndEnter(st, validReq)]
                 /\ UNCHANGED <<limiter, arrived, admitted, granted>>
            ELSE IF st.cancelled
                    \/ (deadlineNear /\ ReserveWait(limiter, now) > 0)
            THEN /\ call' = [call EXCEPT ![p] = RateLimitAbort(st)]
                 /\ UNCHANGED <<limiter, arrived, admitted, granted>>
            ELSE /\ limiter' = Reserve(limiter, now)
                 /\ arrived' = Bump(arrived, now)
                 /\ granted' = Grant(granted, now + ReserveWait(limiter, now), 1)
                 /\ IF ReserveWait(limiter, now) = 0
                    THEN /\ call' = [call EXCEPT ![p] =
                                BuildAndEnter([st EXCEPT !.acquired = @ + 1],
                                              validReq)]
                         /\ admitted' = Bump(admitted, now)
                    ELSE /\ call' = [call EXCEPT ![p] =
                                [st EXCEPT !.pc = "waiting",
                                           !.timeToAct =
                                               now + ReserveWait(limiter, now)]]
                         /\ UNCHANGED admitted
    /\ UNCHANGED <<cfg, now, callers>>
    /\ UNCHANGED outside
    /\ UNCHANGED req
    /\ UNCHANGED aside

\* Wait's timer fires: the caller holds its token, builds the request and
\* enters the loop.
WaitDone(p) ==
    /\ call[p].pc = "waiting"
    /\ now >= call[p].timeToAct
    /\ \E validReq \in BOOLEAN :
        call' = [call EXCEPT ![p] =
                    BuildAndEnter([call[p] EXCEPT !.acquired = @ + 1,
                                                  !.timeToAct = 0], validReq)]
    /\ admitted' = Bump(admitted, now)
    /\ UNCHANGED <<cfg, limiter, now, callers, arrived, granted>>
    /\ UNCHANGED outside
    /\ UNCHANGED req
    /\ UNCHANGED aside

\* Wait sees the context done: the reservation is cancelled and DoRequest
\* returns the rate limit error.
WaitCancel(p) ==
    /\ call[p].pc = "waiting"
    /\ call[p].cancelled
    /\ limiter' = CancelReservation(limiter, call[p].timeToAct, now)
    /\ granted' = Grant(granted, call[p].timeToAct, -1)
    /\ call' = [call EXCEPT ![p] =
                    RateLimitAbort([call[p] EXCEPT !.timeToAct = 0])]
    /\ UNCHANGED <<cfg, now, callers, arrived, admitted>>
    /\ UNCHANGED outside
    /\ UNCHANGED req
    /\ UNCHANGED aside

\* The loop's body calls httpClient.Do: one physical send begins.  gap is
\* the time since the attempt before it failed.
SendStart(p) ==
    /\ call[p].pc = "send"
    /\ call' = [call EXCEPT ![p] =
                    [call[p] EXCEPT !.pc = "inflight", !.sends = @ + 1,
                                    !.gap = IF call[p].attempt = 0 THEN 0
                                            ELSE now - call[p].failedAt,
                                    !.failedAt = 0]]
    /\ req' = [req EXCEPT ![p] = Transmit(req[p])]
    /\ UNCHANGED <<cfg, limiter, now, callers, arrived, admitted, granted>>
    /\ UNCHANGED outside
    /\ UNCHANGED aside

\* httpClient.Do returns and the rest of the loop's body runs.  A request
\* sent with a context already done comes back with the context's error; one
\* whose context was cancelled during the send comes back with that error or
\* with what the transport had by then.  The send has read some of what was
\* left in the body reader, all of it if a response came back; a send given
\* less than the Content-Length announces fails in the transport.
SendFinish(p) ==
    /\ call[p].pc = "inflight"
    /\ \E o \in Outcomes, read \in 0..req[p].bodyLeft :
        /\ o.err = "ctx" => call[p].cancelled
        /\ (call[p].cancelled /\ call[p].cancelledIn # call[p].sends)
                => o.err = "ctx"
        /\ o.err = "nil" => read = req[p].bodyLeft
        /\ BodyShort(req[p]) => o.err # "nil"
        /\ req' = [req EXCEPT ![p].bodyLeft = @ - read]
        /\ LET st == [call[p] EXCEPT !.trace = Append(@, o),
                                     !.closes = Append(@, 0), !.gap = 0]
           IN  call' = [call EXCEPT ![p] =
                IF o.err # "nil"
                THEN LoopHead(st, st.attempt + 1, DoErr(o))
                ELSE IF RetryStatus(o.status, st.attempt)
                THEN LoopHead(CloseBody(st), st.attempt + 1,
                              StatusErr(o.status))
                ELSE [st EXCEPT !.pc = "done",
                                !.result = [NoResult EXCEPT !.kind = "resp",
                                                            !.status = o.status]]]
    /\ UNCHANGED <<cfg, limiter, now, callers, arrived, admitted, granted>>
    /\ UNCHANGED outside
    /\ UNCHANGED aside

\* The caller cancels the context it passed (or its deadline passes);
\* cancelledIn is the physical send in progress at that moment, if any.
Cancel(p) ==
    /\ call[p].pc # "done"
    /\ ~call[p].cancelled
    /\ call' = [call EXCEPT ![p] =
                    [call[p] EXCEPT !.cancelled = TRUE,
                                    !.cancelledIn =
                                        IF call[p].pc = "inflight"
                                        THEN call[p].sends ELSE 0]]
    /\ UNCHANGED <<cfg, limiter, now, callers, arrived, admitted, granted>>
    /\ UNCHANGED outside
    /\ UNCHANGED req
    /\ UNCHANGED aside

\* DoRequest has returned; the caller is free to make its next call.
Return(p) ==
    /\ call[p].pc = "done"
    /\ call[p].n < MaxCalls
    /\ call' = [call EXCEPT ![p] = [IdleCall EXCEPT !.n = call[p].n]]
    /\ parsed' = [parsed EXCEPT ![p] = NotParsed]
    /\ req' = [req EXCEPT ![p] = NoRequest]
    /\ UNCHANGED <<cfg, limiter, now, callers, arrived, admitted, granted>>
    /\ UNCHANGED <<classified, made>>
    /\ UNCHANGED aside

Tick ==
    /\ now < MaxTime
    /\ now' = now + 1
    /\ UNCHANGED <<cfg, limiter, callers, call, arrived, admitted, granted>>
    /\ UNCHANGED outside
    /\ UNCHANGED req
    /\ UNCHANGED aside

\* A service method hands the response DoRequest returned, with the body the
\* server sent, to ParseResponse.
Parse(p) ==
    /\ call[p].pc = "done"
    /\ call[p].result.kind = "resp"
    /\ ~parsed[p].done
    /\ \E body \in Bodies :
        parsed' = [parsed EXCEPT ![p] =
                    ParseResponse([status |-> call[p].result.status,
                                   body |-> body])]
    /\ UNCHANGED <<cfg, limiter, now, callers, call, arrived, admitted,
                   granted, classified, made>>
    /\ UNCHANGED req
    /\ UNCHANGED aside

\* The predicates of the APIError at hand are asked, and so is the executor:
\* whether DoRequest, with attempts left, sends again after a response of the
\* error's HTTP status.
Classify ==
    /\ ~classified.done
    /\ classified' =
            [classified EXCEPT
                !.done = TRUE,
                !.retryable = IsRetryable(classified.apiErr),
                !.authentication = IsAuthenticationError(classified.apiErr),
                !.validation = IsValidationError(classified.apiErr),
                !.rateLimit = IsRateLimitError(classified.apiErr),
                !.resent = RetryStatus(classified.apiErr.HTTPStatusCode, 0)]
    /\ UNCHANGED <<cfg, limiter, now, callers, call, arrived, admitted,
                   granted, parsed, made>>
    /\ UNCHANGED req
    /\ UNCHANGED aside

\* NewClient is called with the argument at hand.
NewClientCall ==
    /\ ~made.called
    /\ made' = NewClient(made.input)
    /\ UNCHANGED <<cfg, limiter, now, callers, call, arrived, admitted,
                   granted, parsed, classified>>
    /\ UNCHANGED req
    /\ UNCHANGED aside

\* Client.SetAccessToken(token).
SetAccessToken ==
    /\ made.client.set
    /\ \E token \in AccessTokens :
        made' = [made EXCEPT !.client.config.AccessToken = token]
    /\ req' = [p \in Callers |->
                IF req[p].pc = "tested"
                THEN [req[p] EXCEPT !.raced = TRUE] ELSE req[p]]
    /\ UNCHANGED <<cfg, limiter, now, callers, call, arrived, admitted,
                   granted, parsed, classified>>
    /\ UNCHANGED aside

\* Client.SetTimeout(timeout).
SetTimeout ==
    /\ made.client.set
    /\ \E timeout \in Timeouts :
        made' = [made EXCEPT !.client.config.Timeout = timeout,
                             !.client.httpTimeout = timeout]
    /\ req' = [p \in Callers |->
                IF req[p].pc = "built" /\ call[p].pc = "inflight"
                THEN [req[p] EXCEPT !.raced = TRUE] ELSE req[p]]
    /\ UNCHANGED <<cfg, limiter, now, callers, call, arrived, admitted,
                   granted, parsed, classified>>
    /\ UNCHANGED aside

\* DoRequest of a client without rate limiter, up to the test of the access
\* token: the endpoint is resolved against the base URL, the request is
\* created around the caller's body reader (a method NewRequestWithContext
\* rejects ends the call) and the User-Agent header is set.
RequestBeginWith(p, endpoints, headersArgs, bodies) ==
    /\ made.client.set
    /\ ~limiter.set
    /\ call[p].pc = "idle"
    /\ req[p].pc = "idle"
    /\ \E endpoint \in endpoints, headers \in headersArgs,
          body \in bodies, validReq \in BOOLEAN :
        IF validReq
        THEN /\ req' = [req EXCEPT ![p] =
                    [NoRequest EXCEPT
                        !.pc = "tested", !.endpoint = endpoint,
                        !.headersArg = headers, !.body = body,
                        !.bodyLeft = body,
                        !.url = ResolvePath(made.client, endpoint),
                        !.headers.UserAgent =
                            Header(made.client.config.UserAgent),
                        !.tokenSeen = made.client.config.AccessToken # ""]]
             /\ call' = [call EXCEPT ![p] =
                    [call[p] EXCEPT !.n = @ + 1, !.pc = "building"]]
        ELSE /\ call' = [call EXCEPT ![p] =
                    BuildAndEnter([call[p] EXCEPT !.n = @ + 1], FALSE)]
             /\ UNCHANGED req
    /\ UNCHANGED <<cfg, limiter, now, callers, arrived, admitted, granted,
                   made>>
    /\ UNCHANGED <<parsed, classified>>
    /\ UNCHANGED aside

\* DoRequest with any of the arguments callers pass.
RequestBegin(p) ==
    RequestBeginWith(p, EndpointArgs(made.client), HeaderArgs, BodyArgs)

\* DoRequest as accountService.GetAdvertisers calls it: the URL BuildURL
\* made, no body, no headers.
RequestBeginGet(p) ==
    RequestBeginWith(p,
        {BuildURL(made.client, <<"open_api", "advertiser", "info">>,
                  {"advertiser_ids"})},
        {NoHeaders}, {0})

\* DoRequest from the Access-Token header to the head of the loop: the
\* token is read again for the header, Content-Type is set for a body, and
\* the caller's headers are set over these.
RequestHeaders(p) ==
    /\ req[p].pc = "tested"
    /\ \E token \in ReadAccessToken(req[p]) :
        req' = [req EXCEPT ![p] =
            [req[p] EXCEPT
                !.pc = "built",
                !.headers =
                    SetCustomHeaders(
                        SetAccessTokenHeader(
                            [req[p].headers EXCEPT !.ContentType =
                                IF req[p].body > 0
                                THEN Header("application/json")
                                ELSE NoHeader],
                            req[p].tokenSeen, token),
                        req[p].headersArg)]]
    /\ call' = [call EXCEPT ![p] = LoopHead(call[p], 0, NoErr)]
    /\ UNCHANGED <<cfg, limiter, now, callers, arrived, admitted, granted,
                   made>>
    /\ UNCHANGED <<parsed, classified>>
    /\ UNCHANGED aside

\* A method of one of the services the SDK lists as not yet implemented is
\* called on the client.
ServiceCall(p) ==
    /\ made.client.set
    /\ svc[p].pc = "idle"
    /\ call[p].pc = "idle"
    /\ \E service \in {"Ad", "AdGroup", "Audience", "Creative", "Reporting",
                        "BC"},
          reqOK \in BOOLEAN :
        svc' = [svc EXCEPT ![p] =
                    EnterService(svc[p], service,
                                 made.client.services[service], reqOK)]
    /\ UNCHANGED clientVars
    /\ UNCHANGED <<iter, batch>>

\* A method of an AuthService is called: of the one NewAuthService returned
\* or of the client's.
AuthCall(p) ==
    /\ made.client.set
    /\ svc[p].pc = "idle"
    /\ call[p].pc = "idle"
    /\ \E origin \in DOMAIN AuthServices, method \in AuthMethods :
        svc' = [svc EXCEPT ![p] =
                    EnterAuth(svc[p], AuthServices[origin], method)]
    /\ UNCHANGED clientVars
    /\ UNCHANGED <<iter, batch>>

\* The service method calls DoRequest.
ServiceDoRequest(p) ==
    /\ svc[p].pc = "calling"
    /\ svc[p].client
    /\ Arrive(p)

\* DoRequest has returned, and ParseResponse if there was a response: the
\* service method returns.
ServiceReturn(p) ==
    /\ svc[p].pc = "calling"
    /\ call[p].pc = "done"
    /\ call[p].result.kind = "resp" => parsed[p].done
    /\ svc' = [svc EXCEPT ![p] =
                    LeaveService(svc[p], call[p].result, parsed[p])]
    /\ UNCHANGED clientVars
    /\ UNCHANGED <<iter, batch>>

\* Next is called on the iterator.
NextCall ==
    /\ iter.set
    /\ iter.pc = "idle"
    /\ Fetches(iter) => Len(iter.fetched) < MaxFetches
    /\ \E o \in FetchOutcomes : iter' = IteratorNext(iter, o)
    /\ UNCHANGED clientVars
    /\ UNCHANGED <<svc, batch>>

\* AllPages is called: allResults is empty.
AllPagesCall ==
    /\ iter.set
    /\ iter.pc = "idle"
    /\ iter' = [iter EXCEPT !.pc = "AllPages", !.allResults = 0,
                            !.returned = ""]
    /\ UNCHANGED clientVars
    /\ UNCHANGED <<svc, batch>>

\* ForEach is called.
ForEachCall ==
    /\ iter.set
    /\ iter.pc = "idle"
    /\ iter' = [iter EXCEPT !.pc = "ForEach", !.allResults = 0,
                            !.returned = ""]
    /\ UNCHANGED clientVars
    /\ UNCHANGED <<svc, batch>>

\* The loop of AllPages or ForEach takes a turn.
LoopStep ==
    /\ iter.pc \in {"AllPages", "ForEach"}
    /\ Fetches(iter) => Len(iter.fetched) < MaxFetches
    /\ \E o \in FetchOutcomes, fnErr \in BOOLEAN :
        iter' = LoopTurn(iter, o, fnErr)
    /\ UNCHANGED clientVars
    /\ UNCHANGED <<svc, batch>>

\* Process(items) is called.
ProcessCall ==
    /\ batch.set
    /\ batch.pc = "idle"
    /\ \E n \in 0..MaxItems :
        batch' = [batch EXCEPT !.items = n, !.i = 0, !.pc = "loop"]
    /\ UNCHANGED clientVars
    /\ UNCHANGED <<svc, iter>>

\* The loop of Process takes a turn.
ProcessStep ==
    /\ batch.pc = "loop"
    /\ Len(batch.batches) <= MaxItems
    /\ \E perr \in BOOLEAN : batch' = ProcessTurn(batch, perr)
    /\ UNCHANGED clientVars
    /\ UNCHANGED <<svc, iter>>

Next ==
    \/ \E p \in callers : Arrive(p)
    \/ \E p \in callers : WaitDone(p)
    \/ \E p \in callers : WaitCancel(p)
    \/ \E p \in callers : SendStart(p)
    \/ \E p \in callers : SendFinish(p)
    \/ \E p \in callers : Cancel(p)
    \/ \E p \in callers : Return(p)
    \/ Tick

\* ------------------------------------------------------------ initial states

\* Retry policies Config.Validate accepts (delays in ticks).
RetryConfigs ==
    {NoRetryConfig} \cup
    [set : {TRUE}, MaxRetries : 0..MaxRetriesBound,
     BackoffStrategy : {LinearBackoff, ExponentialBackoff, FixedBackoff},
     InitialDelay : {1}, MaxDelay : {2}, Multiplier : {2},
     RetryableStatusCodes : CodeChoices]

\* Rate-limit policies Config.Validate accepts, of the rates whose admission
\* instants all fall on ticks.
RateLimits ==
    {NoRateLimit} \cup
    [set : {TRUE},
     RequestsPerSecond : {r \in 1..MaxRate : TicksPerSecond % r = 0},
     BurstSize : 1..MaxBurst]

InitWith(config, cs) ==
    /\ cfg = config
    /\ limiter = NewClientLimiter(config)
    /\ now = 0
    /\ callers = cs
    /\ call = [p \in Callers |-> IdleCall]
    /\ arrived = [t \in Times |-> 0]
    /\ admitted = [t \in Times |-> 0]
    /\ granted = [t \in Times |-> 0]
    /\ parsed = [p \in Callers |-> NotParsed]
    /\ classified = NotClassified
    /\ made = NotMade
    /\ req = [p \in Callers |-> NoRequest]
    /\ svc = [p \in Callers |-> NoServiceCall]
    /\ iter = NoIterator
    /\ batch = NoBatch

\* One request a second, no burst.
SlowRateLimit == [set |-> TRUE, RequestsPerSecond |-> 1, BurstSize |-> 1]

\* One goroutine using a client of any accepted retry policy, unlimited or
\* rate-limited.
Init ==
    \E r \in RetryConfigs, l \in {NoRateLimit, SlowRateLimit} :
        InitWith([RetryConfig |-> r, RateLimit |-> l], {1})

Spec == Init /\ [][Next]_vars

\* Several goroutines sharing a rate-limited client that does not retry.
NoRetries ==
    [set |-> TRUE, MaxRetries |-> 0, BackoffStrategy |-> FixedBackoff,
     InitialDelay |-> 1, MaxDelay |-> 2, Multiplier |-> 2,
     RetryableStatusCodes |-> {}]

InitConc ==
    \E l \in RateLimits \ {NoRateLimit} :
        InitWith([RetryConfig |-> NoRetries, RateLimit |-> l], Callers)

\* Each goroutine makes one call.
NextConc ==
    \/ \E p \in callers : Arrive(p)
    \/ \E p \in callers : WaitDone(p)
    \/ \E p \in callers : WaitCancel(p)
    \/ \E p \in callers : SendStart(p)
    \/ \E p \in callers : SendFinish(p)
    \/ \E p \in callers : Cancel(p)
    \/ Tick

SpecConc == InitConc /\ [][NextConc]_vars

\* Several goroutines making call after call on a client limited to one
\* request a second, so that reservations queue up behind one another.
InitBusy ==
    InitWith([RetryConfig |-> NoRetries, RateLimit |-> SlowRateLimit], Callers)

SpecBusy == InitBusy /\ [][Next]_vars

\* One service method on a client without rate limit: DoRequest, then
\* ParseResponse on the response it returned.
InitService ==
    \E r \in RetryConfigs :
        /\ r.BackoffStrategy = FixedBackoff
        /\ InitWith([RetryConfig |-> r, RateLimit |-> NoRateLimit], {1})

NextService ==
    \/ \E p \in callers : Arrive(p)
    \/ \E p \in callers : SendStart(p)
    \/ \E p \in callers : SendFinish(p)
    \/ \E p \in callers : Cancel(p)
    \/ \E p \in callers : Parse(p)

SpecService == InitService /\ [][NextService]_vars

\* The HTTP statuses and codes an APIError may carry (NewAPIError takes any;
\* 0 is the status of one that was never given any).
ErrorStatuses == {0, 200, 400, 401, 403, 404, 429, 500, 502, 503, 504}

ErrorCodes ==
    {"", "UNAUTHORIZED", "FORBIDDEN", "INVALID_ACCESS_TOKEN",
     "ACCESS_TOKEN_EXPIRED", "INSUFFICIENT_PERMISSIONS", "INVALID_PARAMETER",
     "MISSING_PARAMETER", "PARAMETER_VALUE_NOT_SUPPORTED", "VALIDATION_ERROR",
     "RATE_LIMIT_EXCEEDED", "INTERNAL_ERROR", "SERVICE_UNAVAILABLE", "TIMEOUT",
     "INSUFFICIENT_BALANCE"}

\* Any APIError, on a client of the default retry policy.
InitErrors ==
    /\ cfg = [RetryConfig |-> NoRetryConfig, RateLimit |-> NoRateLimit]
    /\ limiter = NilLimiter
    /\ now = 0
    /\ callers = {}
    /\ call = [p \in Callers |-> IdleCall]
    /\ arrived = [t \in Times |-> 0]
    /\ admitted = [t \in Times |-> 0]
    /\ granted = [t \in Times |-> 0]
    /\ parsed = [p \in Callers |-> NotParsed]
    /\ made = NotMade
    /\ req = [p \in Callers |-> NoRequest]
    /\ svc = [p \in Callers |-> NoServiceCall]
    /\ iter = NoIterator
    /\ batch = NoBatch
    /\ \E code \in ErrorCodes, status \in ErrorStatuses :
        classified = [NotClassified EXCEPT
                        !.apiErr = [Code |-> code, HTTPStatusCode |-> status]]

SpecErrors == InitErrors /\ [][Classify]_vars

\* Any configuration, NewClient on it, and the setters of the client made.
InitNew ==
    /\ cfg = [RetryConfig |-> NoRetryConfig, RateLimit |-> NoRateLimit]
    /\ limiter = NilLimiter
    /\ now = 0
    /\ callers = {}
    /\ call = [p \in Callers |-> IdleCall]
    /\ arrived = [t \in Times |-> 0]
    /\ admitted = [t \in Times |-> 0]
    /\ granted = [t \in Times |-> 0]
    /\ parsed = [p \in Callers |-> NotParsed]
    /\ classified = NotClassified
    /\ req = [p \in Callers |-> NoRequest]
    /\ svc = [p \in Callers |-> NoServiceCall]
    /\ iter = NoIterator
    /\ batch = NoBatch
    /\ \E input \in Configs : made = [NotMade EXCEPT !.input = input]

NextNew ==
    \/ NewClientCall
    \/ SetAccessToken
    \/ SetTimeout

SpecNew == InitNew /\ [][NextNew]_vars

\* Configurations NewClient accepts, with the access token or with the
\* client id and secret as credential.
RequestConfigs ==
    {c \in [set : {TRUE}, BaseURL : {"https://business-api.tiktok.com"},
            AccessToken : AccessTokens, ClientID : {"", "id"},
            ClientSecret : {"secret"}, Timeout : {1},
            RetryConfig : {r \in RetryConfigs :
                                /\ r.set
                                /\ r.BackoffStrategy = FixedBackoff
                                /\ r.RetryableStatusCodes = {503}},
            RateLimit : {NoRateLimit},
            UserAgent : {"tiktok-business-api-go-sdk/1.0.0"}] :
        (c.AccessToken = "") # (c.ClientID = "")}

\* The state after NewClient(config) returned a client.
InitClient(config, cs) ==
    /\ cfg = [RetryConfig |-> config.RetryConfig, RateLimit |-> config.RateLimit]
    /\ limiter = NewClientLimiter(cfg)
    /\ now = 0
    /\ callers = cs
    /\ call = [p \in Callers |-> IdleCall]
    /\ arrived = [t \in Times |-> 0]
    /\ admitted = [t \in Times |-> 0]
    /\ granted = [t \in Times |-> 0]
    /\ parsed = [p \in Callers |-> NotParsed]
    /\ classified = NotClassified
    /\ req = [p \in Callers |-> NoRequest]
    /\ svc = [p \in Callers |-> NoServiceCall]
    /\ iter = NoIterator
    /\ batch = NoBatch
    /\ made = NewClient(config)
    /\ made.client.set

\* One goroutine makes one call on a client nobody reconfigures.
InitRequest == \E c \in RequestConfigs : InitClient(c, {1})

NextRequest ==
    \/ \E p \in callers : RequestBegin(p)
    \/ \E p \in callers : RequestHeaders(p)
    \/ \E p \in callers : SendStart(p)
    \/ \E p \in callers : SendFinish(p)

SpecRequest == InitRequest /\ [][NextRequest]_vars

\* One retry, on 503.
OneRetry ==
    [NoRetries EXCEPT !.MaxRetries = 1, !.RetryableStatusCodes = {503}]

\* One goroutine makes one call while another calls SetAccessToken and
\* SetTimeout on the same client.
InitShared ==
    \E c \in RequestConfigs :
        c.RetryConfig = OneRetry /\ InitClient(c, {1})

NextShared ==
    \/ \E p \in callers : RequestBeginGet(p)
    \/ \E p \in callers : RequestHeaders(p)
    \/ \E p \in callers : SendStart(p)
    \/ \E p \in callers : SendFinish(p)
    \/ SetAccessToken
    \/ SetTimeout

SpecShared == InitShared /\ [][NextShared]_vars

\* One goroutine calls one service method on a client with or without rate
\* limiter; the bucket of a new limiter is full, so the call does not wait.
InitFacade ==
    \E c \in RequestConfigs, l \in {NoRateLimit, SlowRateLimit} :
        /\ c.RetryConfig = OneRetry
        /\ InitClient([c EXCEPT !.RateLimit = l], {1})

NextFacade ==
    \/ \E p \in callers : ServiceCall(p)
    \/ \E p \in callers : AuthCall(p)
    \/ \E p \in callers : ServiceDoRequest(p)
    \/ \E p \in callers : SendStart(p)
    \/ \E p \in callers : SendFinish(p)
    \/ \E p \in callers : Parse(p)
    \/ \E p \in callers : ServiceReturn(p)

SpecFacade == InitFacade /\ [][NextFacade]_vars

\* The state with no client.
InitNoClient ==
    /\ cfg = [RetryConfig |-> NoRetryConfig, RateLimit |-> NoRateLimit]
    /\ limiter = NilLimiter
    /\ now = 0
    /\ callers = {}
    /\ call = [p \in Callers |-> IdleCall]
    /\ arrived = [t \in Times |-> 0]
    /\ admitted = [t \in Times |-> 0]
    /\ granted = [t \in Times |-> 0]
    /\ parsed = [p \in Callers |-> NotParsed]
    /\ classified = NotClassified
    /\ made = NotMade
    /\ req = [p \in Callers |-> NoRequest]
    /\ svc = [p \in Callers |-> NoServiceCall]

\* An iterator over pages, with the default options or with a page limit
\* (0: none).
InitPages ==
    /\ InitNoClient
    /\ batch = NoBatch
    /\ \E options \in {NilOptions} \cup
                       [set : {TRUE}, PageSize : {50},
                        MaxPages : 0..MaxPagesBound] :
        iter = NewPaginationIterator(options)

NextPages ==
    \/ NextCall
    \/ AllPagesCall
    \/ ForEachCall
    \/ LoopStep

SpecPages == InitPages /\ [][NextPages]_vars

\* A batch processor of any batch size.
InitBatch ==
    /\ InitNoClient
    /\ iter = NoIterator
    /\ \E batchSize \in -1..MaxBatchSize :
        batch = NewBatchProcessor(batchSize)

NextBatch ==
    \/ ProcessCall
    \/ ProcessStep

SpecBatch == InitBatch /\ [][NextBatch]_vars

\* ------------------------------------------------------------------ claims

\* The retry budget and the retryable set as the specification words them.
ConfiguredMaxRetries ==
    IF cfg.RetryConfig.set THEN cfg.RetryConfig.MaxRetries ELSE 3

RetryableSet ==
    IF cfg.RetryConfig.set /\ cfg.RetryConfig.RetryableStatusCodes # {}
    THEN cfg.RetryConfig.RetryableStatusCodes
    ELSE {429, 500, 502, 503, 504}

IsResponse(o) == o.err = "nil"
IsRetryableResponse(o) == o.err = "nil" /\ o.status \in RetryableSet
IsFinalResponse(o) == o.err = "nil" /\ o.status \notin RetryableSet
Returned(p) == call[p].pc = "done"

\* C1: one logical call never performs more than max_retries + 1 physical
\* sends (max_retries is 3 when no retry policy is configured).
C1_SendsBounded ==
    \A p \in Callers : call[p].sends <= ConfiguredMaxRetries + 1

\* A call of a client without retry policy that has sent four times.
C1_Witness ==
    \E p \in Callers :
        ~cfg.RetryConfig.set /\ call[p].sends = 4 /\ Len(call[p].trace) = 4

\* C2: with a rate-limit policy, a call that reached the transport has
\* acquired exactly as many limiter tokens as it has made physical sends.
C2_OneTokenPerSend ==
    \A p \in Callers :
        (limiter.set /\ Returned(p)
            /\ call[p].result.kind \in {"resp", "exhausted"})
        => call[p].acquired = call[p].sends

\* C3: on a received response the executor goes on to a further attempt
\* exactly if the status is retryable and attempts remain; a response of any
\* other status is returned at once; a call that has returned sends no more
\* (until the caller starts its next call).
C3_RetryIffRetryable ==
    [][\A p \in Callers :
        /\ (call[p].pc = "inflight" /\ call'[p].pc # "inflight"
                /\ IsResponse(call'[p].trace[Len(call'[p].trace)]))
           => LET status == call'[p].trace[Len(call'[p].trace)].status
              IN  /\ (call'[p].pc = "send")
                        <=> (status \in RetryableSet
                                /\ call[p].attempt < ConfiguredMaxRetries)
                  /\ status \notin RetryableSet
                        => /\ call'[p].pc = "done"
                           /\ call'[p].result.kind = "resp"
                           /\ call'[p].result.status = status
        /\ (Returned(p) /\ call'[p].pc # "idle")
           => call'[p].sends = call[p].sends]_vars

\* A 400 returned on the first attempt of a call that had retries left.
C3_Witness ==
    \E p \in Callers :
        /\ Returned(p)
        /\ call[p].result.kind = "resp" /\ call[p].result.status = 400
        /\ call[p].sends = 1 /\ ConfiguredMaxRetries >= 1
        /\ 400 \notin RetryableSet

\* C4: when every physical send fails at the transport level, the call ends
\* after exactly max_retries + 1 sends, with no response and the exhaustion
\* error that wraps the last transport error and states max_retries + 1.
C4_AllTransportFailures ==
    \A p \in Callers :
        (call[p].trace # <<>>
            /\ \A i \in 1..Len(call[p].trace) : call[p].trace[i].err = "transport")
        => IF Len(call[p].trace) = ConfiguredMaxRetries + 1
           THEN /\ Returned(p)
                /\ call[p].sends = ConfiguredMaxRetries + 1
                /\ call[p].result.kind = "exhausted"
                /\ call[p].result.cause.kind = "transport"
                /\ call[p].result.attempts = ConfiguredMaxRetries + 1
           ELSE /\ ~Returned(p)
                /\ Len(call[p].trace) < ConfiguredMaxRetries + 1

\* Three transport failures exhaust a call configured with two retries.
C4_Witness ==
    \E p \in Callers :
        /\ cfg.RetryConfig.set /\ cfg.RetryConfig.MaxRetries = 2
        /\ Len(call[p].trace) = 3
        /\ \A i \in 1..3 : call[p].trace[i].err = "transport"
        /\ call[p].result.kind = "exhausted"

\* C5: if the first k <= max_retries attempts each give a retryable status
\* or a transport error and attempt k+1 gives a non-retryable status, the
\* call returns that response, with no error, after exactly k+1 sends.
C5_FirstFinalResponseReturned ==
    \A p \in Callers :
        LET tr == call[p].trace
            k == Len(tr) - 1
        IN  (/\ tr # <<>>
             /\ k <= ConfiguredMaxRetries
             /\ \A i \in 1..k : tr[i].err # "nil" \/ IsRetryableResponse(tr[i])
             /\ IsFinalResponse(tr[k + 1]))
            => /\ Returned(p)
               /\ call[p].result.kind = "resp"
               /\ call[p].result.status = tr[k + 1].status
               /\ call[p].result.cause.kind = "nil"
               /\ call[p].sends = k + 1

\* max_retries = 2, retryable {503}, outcomes 503, 503, 200: the 200 is
\* returned after three sends.
C5_Witness ==
    \E p \in Callers :
        /\ cfg.RetryConfig.set /\ cfg.RetryConfig.MaxRetries = 2
        /\ cfg.RetryConfig.RetryableStatusCodes = {503}
        /\ Len(call[p].trace) = 3
        /\ call[p].trace[1] = [err |-> "nil", status |-> 503]
        /\ call[p].trace[2] = [err |-> "nil", status |-> 503]
        /\ call[p].trace[3] = [err |-> "nil", status |-> 200]
        /\ call[p].result.kind = "resp" /\ call[p].result.status = 200
        /\ call[p].sends = 3

\* C6: a physical send that the cancellation of the context cut short is
\* the call's last send, and the call does not return the retry-exhaustion
\* error.
C6_CancelledSendEndsCall ==
    \A p \in Callers :
        (/\ call[p].cancelledIn >= 1
         /\ Len(call[p].trace) >= call[p].cancelledIn
         /\ call[p].trace[call[p].cancelledIn].err = "ctx")
        => /\ call[p].sends = call[p].cancelledIn
           /\ Returned(p) => call[p].result.kind # "exhausted"

\* C7: a call that leaves the limiter without a token (the acquisition
\* failed) has returned the rate-limit error; a call that returned it has
\* made no physical send and holds no token.
C7_AcquireFailureAborts ==
    [][\A p \in Callers :
        /\ (limiter.set /\ call[p].pc \in {"idle", "waiting"}
                /\ call'[p].pc \notin {"idle", "waiting"}
                /\ call'[p].acquired = call[p].acquired)
           => /\ call'[p].pc = "done"
              /\ call'[p].result.kind = "rateLimitErr"
        /\ call'[p].result.kind = "rateLimitErr"
           => /\ call'[p].pc = "done"
              /\ call'[p].sends = 0
              /\ call'[p].acquired = 0]_vars

\* A second call that reserved at instant 0 behind the first, was cancelled
\* while it waited and returned the rate-limit error without sending.
C7_Witness ==
    \E p \in Callers :
        /\ call[p].result.kind = "rateLimitErr"
        /\ call[p].n = 2 /\ arrived[0] = 2
        /\ call[p].cancelled
        /\ call[p].sends = 0

\* C8 as claimed: a call whose max_retries + 1 attempts all received a
\* retryable status returns the exhaustion error.
C8_AllRetryableExhausts ==
    \A p \in Callers :
        (/\ Returned(p)
         /\ Len(call[p].trace) = ConfiguredMaxRetries + 1
         /\ \A i \in 1..Len(call[p].trace) : IsRetryableResponse(call[p].trace[i]))
        => call[p].result.kind = "exhausted"

\* C8 as amended: such a call returns the response of its last attempt, with
\* no error; the exhaustion error is returned only when the last attempt
\* ended in an error of the transport.
C8_LastResponseReturned ==
    \A p \in Callers :
        /\ (/\ Len(call[p].trace) = ConfiguredMaxRetries + 1
            /\ \A i \in 1..Len(call[p].trace) : IsRetryableResponse(call[p].trace[i]))
           => /\ Returned(p)
              /\ call[p].result.kind = "resp"
              /\ call[p].result.status = call[p].trace[Len(call[p].trace)].status
              /\ call[p].sends = ConfiguredMaxRetries + 1
        /\ call[p].result.kind = "exhausted"
           => /\ call[p].trace # <<>>
              /\ call[p].trace[Len(call[p].trace)].err # "nil"

\* 503 on each of the two attempts of a call with one retry.
C8_Witness ==
    \E p \in Callers :
        /\ cfg.RetryConfig.set /\ cfg.RetryConfig.MaxRetries = 1
        /\ Len(call[p].trace) = 2
        /\ call[p].trace[1] = [err |-> "nil", status |-> 503]
        /\ call[p].trace[2] = [err |-> "nil", status |-> 503]
        /\ 503 \in RetryableSet
        /\ Returned(p)

RECURSIVE Pow(_, _)
Pow(b, e) == IF e = 0 THEN 1 ELSE b * Pow(b, e - 1)

\* The delay the retry policy asks for before attempt `attempt`.
BackoffDelay(rc, attempt) ==
    LET raw == IF rc.BackoffStrategy = FixedBackoff THEN rc.InitialDelay
               ELSE IF rc.BackoffStrategy = LinearBackoff
               THEN rc.InitialDelay * attempt
               ELSE rc.InitialDelay * Pow(rc.Multiplier, attempt)
    IN  IF raw > rc.MaxDelay THEN rc.MaxDelay ELSE raw

\* C9: a retry (attempt 1 and later) is sent no sooner than the policy's
\* backoff delay after the attempt before it failed.
C9_BackoffApplied ==
    \A p \in Callers :
        (cfg.RetryConfig.set /\ call[p].pc = "inflight" /\ call[p].attempt >= 1)
        => call[p].gap >= BackoffDelay(cfg.RetryConfig, call[p].attempt)

\* C10: when more than burst_capacity calls reach the limiter of a new
\* client at instant 0, exactly burst_capacity are admitted at that instant
\* and no other is admitted sooner than 1/sustained_rate seconds later.
C10_BurstThenDelay ==
    (cfg.RateLimit.set /\ arrived[0] > cfg.RateLimit.BurstSize)
    => /\ admitted[0] = cfg.RateLimit.BurstSize
       /\ \A t \in Times :
            (t > 0 /\ t * cfg.RateLimit.RequestsPerSecond < TicksPerSecond)
            => admitted[t] = 0

\* Burst 1 at one request a second, two calls at instant 0: one admitted at
\* once, the other a second later.
C10_Witness ==
    /\ cfg.RateLimit.BurstSize = 1 /\ cfg.RateLimit.RequestsPerSecond = 1
    /\ arrived[0] = 2
    /\ admitted[0] = 1
    /\ admitted[TicksPerSecond] = 1

\* The admissions promised for the instants t1..t2.
RECURSIVE GrantedIn(_, _)
GrantedIn(t1, t2) ==
    IF t1 > t2 THEN 0 ELSE granted[t1] + GrantedIn(t1 + 1, t2)

Handed(p, i) ==
    /\ i = Len(call[p].trace)
    /\ Returned(p)
    /\ call[p].result.kind = "resp"

\* How often the body of the i-th response caller p received has been closed.
TimesClosed(p, i) ==
    call[p].closes[i] + IF Handed(p, i) THEN parsed[p].closes ELSE 0

\* C13: every response body received during a logical call is closed exactly
\* once: DoRequest closes the response it discards for a retry and never
\* hands it out, it hands out the last response unclosed, and ParseResponse
\* closes that one once whichever way it returns.
C13_BodiesClosedOnce ==
    \A p \in Callers :
        /\ \A i \in 1..Len(call[p].trace) :
            /\ TimesClosed(p, i) <= 1
            /\ ~IsResponse(call[p].trace[i]) => TimesClosed(p, i) = 0
            /\ (IsResponse(call[p].trace[i]) /\ ~Handed(p, i))
                    => call[p].closes[i] = 1
            /\ Handed(p, i)
                    => /\ IsResponse(call[p].trace[i])
                       /\ call[p].result.status = call[p].trace[i].status
                       /\ call[p].closes[i] = 0
        /\ parsed[p].done
                => /\ Handed(p, Len(call[p].trace))
                   /\ parsed[p].closes = 1
                   /\ TimesClosed(p, Len(call[p].trace)) = 1

\* A call that discarded one response for a retry, was handed the next, and
\* whose ParseResponse could not read the body to its end.
C13_Witness ==
    \E p \in Callers :
        /\ Len(call[p].trace) = 2
        /\ IsResponse(call[p].trace[1]) /\ call[p].closes[1] = 1
        /\ parsed[p].done /\ parsed[p].err.kind = "read"
        /\ TimesClosed(p, 2) = 1

\* The body decodes as a structured API error with a non-empty code.
DecodesAsAPIError(b) ==
    b.readOK /\ b.wellFormed /\ b.fitsAPIError /\ b.code # ""

\* The body decodes into the caller's target.
DecodesIntoTarget(b) == b.readOK /\ b.wellFormed /\ b.fitsTarget

\* What the claim says of ParseResponse's result r: by status and body,
\* exactly one of API error, generic error with status and body text, nil
\* with the target decoded, parse error.
Classified(r) ==
    IF r.status >= 400
    THEN /\ r.target = "untouched"
         /\ IF DecodesAsAPIError(r.body)
            THEN r.err.kind = "api" /\ r.err.apiErr.Code = r.body.code
            ELSE /\ r.err.kind = "http"
                 /\ r.err.status = r.status
                 /\ r.err.text = r.body
    ELSE IF DecodesIntoTarget(r.body)
         THEN r.err.kind = "nil" /\ r.target = "decoded"
         ELSE r.err.kind = "parse" /\ r.target # "decoded"

\* C14 as claimed: ParseResponse classifies every response into exactly one
\* of: (status >= 400) the structured API error when the body decodes as one
\* with a non-empty code, else a generic error carrying the status and the
\* body text, the target never written; (status < 400) nil with the body
\* decoded into the target, or a parse error that is no API error.
C14_OneOutcome ==
    \A p \in Callers : parsed[p].done => Classified(parsed[p])

\* C14 as it holds: a response whose body cannot be read to its end yields a
\* read error whatever its status, with the target untouched; every response
\* whose body is read is classified as claimed.
C14_OneOutcomeOfReadBody ==
    \A p \in Callers :
        parsed[p].done =>
            IF parsed[p].body.readOK
            THEN Classified(parsed[p])
            ELSE /\ parsed[p].err.kind = "read"
                 /\ parsed[p].target = "untouched"

\* A 400 whose body is a JSON object without code, which would also fit the
\* target: the generic error, and the target untouched.
C14_Witness ==
    \E p \in Callers :
        /\ parsed[p].done /\ parsed[p].status = 400
        /\ parsed[p].body.readOK /\ parsed[p].body.wellFormed
        /\ parsed[p].body.fitsAPIError /\ parsed[p].body.code = ""
        /\ parsed[p].body.fitsTarget
        /\ parsed[p].err.kind = "http" /\ parsed[p].target = "untouched"

\* C15: every structured API error ParseResponse returns for a response of
\* status s >= 400 carries http_status = s, so that the predicates answer by
\* status: 401 and 403 are authentication errors, 400 a validation error,
\* 429 a rate-limit error, 429 and 500, 502, 503, 504 retryable.
C15_StatusCarried ==
    \A p \in Callers :
        (parsed[p].done /\ parsed[p].err.kind = "api") =>
            LET e == parsed[p].err.apiErr
                s == parsed[p].status
            IN  /\ e.HTTPStatusCode = s
                /\ s \in {401, 403} => IsAuthenticationError(e)
                /\ s = 400 => IsValidationError(e)
                /\ s = 429 => IsRateLimitError(e)
                /\ s \in {429, 500, 502, 503, 504} => IsRetryable(e)

\* C16: whatever its HTTP status, an API error of code RATE_LIMIT_EXCEEDED
\* is classified retryable and rate-limit at once, and one of code
\* INVALID_PARAMETER is classified a validation failure, is not classified
\* retryable, and the request answered with it is not sent again.
C16_CodeDecides ==
    classified.done =>
        /\ classified.apiErr.Code = "RATE_LIMIT_EXCEEDED"
                => classified.retryable /\ classified.rateLimit
        /\ classified.apiErr.Code = "INVALID_PARAMETER"
                => /\ classified.validation
                   /\ ~classified.retryable
                   /\ ~classified.resent

\* The configuration NewClient works on: its argument, or the default one.
Effective(input) == IF input.set THEN input ELSE DefaultConfig

\* The faults C17 lists: an empty base URL, a non-positive timeout, a retry
\* policy or a rate-limit policy with a value out of range.
ListedFault(c) ==
    \/ c.BaseURL = ""
    \/ c.Timeout <= 0
    \/ /\ c.RetryConfig.set
       /\ \/ c.RetryConfig.MaxRetries < 0
          \/ c.RetryConfig.InitialDelay <= 0
          \/ c.RetryConfig.MaxDelay <= 0
          \/ c.RetryConfig.Multiplier <= 0
    \/ /\ c.RateLimit.set
       /\ \/ c.RateLimit.RequestsPerSecond <= 0
          \/ c.RateLimit.BurstSize <= 0

\* A credential is configured: a token, or a client id with its secret.
HasCredential(c) ==
    c.AccessToken # "" \/ (c.ClientID # "" /\ c.ClientSecret # "")

\* NewClient returns in this step.
NewClientReturns == ~made.called /\ made'.called

C18_CredentialRequired ==
    [][NewClientReturns =>
        LET c == Effective(made'.input)
        IN  /\ ~HasCredential(c)
                => ~made'.client.set /\ made'.err = "invalid config"
            /\ HasCredential(c) => made'.field # "Authentication"
            /\ (~ListedFault(c) /\ ~URLParseFails(c.BaseURL))
                => (made'.client.set <=> HasCredential(c))
            /\ ~made'.input.set
                => /\ ~made'.client.set
                   /\ made'.err = "invalid config"
                   /\ made'.field = "Authentication"]_vars

\* A client made from a client id and secret without access token.
C18_Witness ==
    /\ made.called /\ made.client.set
    /\ made.input.AccessToken = ""
    /\ made.input.ClientID = "id" /\ made.input.ClientSecret = "secret"

\* C19: the retry policy of every client NewClient produces satisfies
\* max_delay >= initial_delay > 0: a configuration whose max delay is below
\* its initial delay yields no client.
C19_DelaysOrdered ==
    (made.called /\ made.client.set /\ made.client.config.RetryConfig.set)
        => /\ made.client.config.RetryConfig.InitialDelay > 0
           /\ made.client.config.RetryConfig.MaxDelay
                >= made.client.config.RetryConfig.InitialDelay

\* C20: once NewClient has returned a client, no operation changes any field
\* of its configuration, nor the timeout its requests run under.
C20_ConfigReadOnly ==
    [][made.client.set
        => /\ made'.client.config = made.client.config
           /\ made'.client.httpTimeout = made.client.httpTimeout]_vars

\* C21: no goroutine writes a field of the client or of its configuration
\* while a DoRequest of another goroutine is between two reads of it: of the
\* access token between the test and the header, of the timeout during a
\* physical send.
C21_NoUnsynchronisedWrite == \A p \in callers : ~req[p].raced

C23_TimeoutAsConfigured ==
    \A p \in callers : \A i \in 1..Len(req[p].sent) :
        req[p].sent[i].configured > 0 =>
            req[p].sent[i].timeout = req[p].sent[i].configured

\* C26: a call given the URL BuildURL(endpoint, params) made is sent to the
\* base URL's scheme and host, with the endpoint as path and the params as
\* query.
C26_BuiltURLReached ==
    \A p \in callers : \A i \in 1..Len(req[p].sent) :
        req[p].endpoint.origin.set =>
            /\ req[p].sent[i].url.scheme = made.client.baseURL.scheme
            /\ req[p].sent[i].url.host = made.client.baseURL.host
            /\ req[p].sent[i].url.path = req[p].endpoint.segs
            /\ req[p].sent[i].url.query = req[p].endpoint.query

\* C28: every physical send of a call is given the whole body the caller
\* passed.
C28_WholeBodyEachSend ==
    \A p \in callers : \A i \in 1..Len(req[p].sent) :
        req[p].sent[i].body = req[p].body

\* C27: a call that has returned gave back either a response and no error
\* or an error and no response; the error of exhausted retries wraps the
\* failure of the last physical send, which is never nil.
C27_OneOfResponseOrError ==
    \A p \in callers :
        Returned(p) =>
            LET r == call[p].result
                t == call[p].trace
            IN  /\ r.kind \in {"resp", "createErr", "rateLimitErr", "exhausted"}
                /\ r.kind = "resp" =>
                        /\ r.cause = NoErr
                        /\ t # <<>>
                        /\ IsResponse(t[Len(t)])
                        /\ r.status = t[Len(t)].status
                /\ r.kind # "resp" => r.status = 0
                /\ r.kind = "exhausted" =>
                        /\ t # <<>>
                        /\ ~IsResponse(t[Len(t)])
                        /\ r.cause = DoErr(t[Len(t)])
                        /\ r.cause.kind # "nil"

\* A call whose first send got a retryable status and whose last send
\* failed has returned the error of exhausted retries.
C27_Witness ==
    \E p \in callers :
        /\ Returned(p)
        /\ call[p].result.kind = "exhausted"
        /\ Len(call[p].trace) = 2
        /\ IsRetryableResponse(call[p].trace[1])
        /\ call[p].result.cause.kind = "transport"

\* C24: a client NewClient made has its Account, Campaign, Tool and Auth
\* services, and a call of a method of its Ad, AdGroup, Audience, Creative,
\* Reporting or BC service returns ErrServiceNotImplemented, having taken no
\* token of the rate limiter and sent nothing.
C24_NotImplementedServices ==
    /\ made.client.set =>
            \A s \in {"Account", "Campaign", "Tool", "Auth"} :
                made.client.services[s] # "nil"
    /\ \A p \in callers :
            svc[p].service \in {"Ad", "AdGroup", "Audience", "Creative",
                                "Reporting", "BC"} =>
                /\ call[p].acquired = 0
                /\ call[p].sends = 0
                /\ svc[p].pc = "done" => svc[p].err = "ErrServiceNotImplemented"

\* C25: an AuthService, whether NewAuthService(config) returned it or
\* Client.Auth() did, holds its client and its auth configuration, and none
\* of its five methods panics on a nil one.
C25_AuthHasCollaborators ==
    \A p \in callers :
        svc[p].service = "Auth" =>
            /\ svc[p].client
            /\ svc[p].config
            /\ ~svc[p].panicked

\* The fetches that succeeded among the first n calls of fetchFunc.
Succeeded(n) == {i \in 1..n : iter.fetched[i].ok}

\* Every call of fetchFunc asks for the page after the last one fetched
\* with success: the pages fetched are 1, 2, ... without gap or repetition.
PagesInOrder ==
    \A i \in 1..Len(iter.fetched) :
        iter.fetched[i].page = Cardinality(Succeeded(i - 1)) + 1

\* The call of Next made last, if its fetch failed, left currentPage,
\* hasMore and lastResult as they were.
FailedFetchChangesNothing ==
    (iter.last.fetched /\ iter.last.err # "nil") =>
        iter.last.before = [currentPage |-> iter.currentPage,
                            hasMore |-> iter.hasMore,
                            lastResult |-> iter.lastResult]

\* The call of Next made last, if hasMore was false, returned an error
\* without calling fetchFunc and left hasMore false.
NoFetchOnceExhausted ==
    (iter.last.called /\ ~iter.last.before.hasMore) =>
        /\ ~iter.last.fetched
        /\ iter.last.err # "nil"
        /\ ~iter.hasMore

\* C29 as stated: with a page limit M > 0, fetchFunc is called at most M
\* times, for the pages 1, 2, ... in order; a failed fetch changes nothing
\* of the iterator, and Next never fetches once hasMore is false.
C29_FetchCallsBounded ==
    (iter.set /\ iter.options.MaxPages > 0) =>
        /\ Len(iter.fetched) <= iter.options.MaxPages
        /\ PagesInOrder
        /\ FailedFetchChangesNothing
        /\ NoFetchOnceExhausted

\* C29 as it holds: with a page limit M > 0, fetchFunc succeeds at most M
\* times, for the pages 1, 2, ... in order; a failed fetch changes nothing
\* of the iterator, so that the next call of Next asks for the same page
\* again, and Next never fetches once hasMore is false.
C29_FetchedPagesBounded ==
    (iter.set /\ iter.options.MaxPages > 0) =>
        /\ Cardinality(Succeeded(Len(iter.fetched))) <= iter.options.MaxPages
        /\ PagesInOrder
        /\ FailedFetchChangesNothing
        /\ NoFetchOnceExhausted

\* With a limit of two pages: a fetch failed, two succeeded, and Next,
\* called with more pages left, has stopped at the limit.
C29_Witness ==
    /\ iter.options.MaxPages = 2
    /\ Len(iter.fetched) = 3
    /\ Cardinality(Succeeded(3)) = 2
    /\ iter.lastResult.HasMore
    /\ iter.last.err = "maximum pages limit reached"
    /\ ~iter.hasMore

\* For a batch size of one or more: the batches the processor was called on
\* are consecutive, in order, not empty and of at most batchSize items;
\* Process returns an error as soon as the processor does, and has covered
\* all items when it returns none.
BatchesCover(b) ==
    b.batchSize >= 1 =>
        /\ \A k \in 1..Len(b.batches) :
                /\ b.batches[k][1] = (k - 1) * b.batchSize
                /\ b.batches[k][2] = Min(k * b.batchSize, b.items)
                /\ b.batches[k][1] < b.batches[k][2]
        /\ b.err => b.pc = "returned"
        /\ (b.pc = "returned" /\ ~b.err) =>
                IF b.items = 0 THEN b.batches = <<>>
                ELSE /\ b.batches # <<>>
                     /\ b.batches[Len(b.batches)][2] = b.items

\* C30: Process terminates for every batch size, also zero and negative:
\* every turn of its loop that does not leave the loop moves the index i
\* forward; and for a batch size of one or more the processor is called on
\* consecutive, disjoint batches in order that cover all items, up to the
\* first batch for which it returns an error.
C30_ProcessTerminates ==
    [][/\ (batch.pc = "loop" /\ batch'.pc = "loop") => batch'.i > batch.i
       /\ BatchesCover(batch')]_vars

====
